---- MODULE Spec2Model ----
(***************************************************************************)
(* Model of the dark-mode hooks of the project setup guide                 *)
(* (src/unnamed/part_000): useLocalStorage, useColorMode and the dark-mode *)
(* switch button, run by React inside one browser page.                    *)
(*                                                                         *)
(* A JavaScript string is a sequence of UTF-16 code units.  A code unit is *)
(* written as a one-character string when it is printable ASCII or one of  *)
(* tab, line feed, form feed and carriage return, and as "U+XXXX" (four    *)
(* upper-case hexadecimal digits) otherwise; the grave accent, which a     *)
(* TLA+ string cannot hold, is "U+0060".  JSON.parse and JSON.stringify    *)
(* are computed on these sequences.                                        *)
(*                                                                         *)
(* A number is a double.  JSON.parse rounds the decimal of the text to the  *)
(* nearest double, ties to even, with exact arithmetic on natural numbers  *)
(* of any size.  A finite double is kept as its sign and the digits        *)
(* d1 d2 ... dn and exponent e of Number::toString: d1.d2...dn * 10^e is   *)
(* the decimal of the fewest digits that rounds to the double, and of      *)
(* those the closest to it.  Two records are equal exactly when the two    *)
(* numbers are the same value (Object.is).                                 *)
(***************************************************************************)
EXTENDS Integers, Sequences, FiniteSets, TLC

\* Number of useColorMode instances the page can hold.
NumInstances == 2

Instances == 1..NumInstances

\* ------------------------------------------------------------ code units

QUOTE == "\""
BACKSLASH == "\\"
Digits == <<"0", "1", "2", "3", "4", "5", "6", "7", "8", "9">>
HexLower == Digits \o <<"a", "b", "c", "d", "e", "f">>
HexUpper == Digits \o <<"A", "B", "C", "D", "E", "F">>

\* The code units 32..126 (the grave accent, 96, as "U+0060").
Printable ==
  << " ", "!", "\"", "#", "$", "%", "&", "'", "(", ")", "*", "+",
     ",", "-", ".", "/", "0", "1", "2", "3", "4", "5", "6", "7",
     "8", "9", ":", ";", "<", "=", ">", "?", "@", "A", "B", "C",
     "D", "E", "F", "G", "H", "I", "J", "K", "L", "M", "N", "O",
     "P", "Q", "R", "S", "T", "U", "V", "W", "X", "Y", "Z", "[",
     "\\", "]", "^", "_", "U+0060", "a", "b", "c", "d", "e", "f", "g",
     "h", "i", "j", "k", "l", "m", "n", "o", "p", "q", "r", "s",
     "t", "u", "v", "w", "x", "y", "z", "{", "|", "}", "~" >>

\* The four hexadecimal digits of n, as a sequence of characters.
Hex4(n, alphabet) ==
  << alphabet[((n \div 4096) % 16) + 1], alphabet[((n \div 256) % 16) + 1],
     alphabet[((n \div 16) % 16) + 1], alphabet[(n % 16) + 1] >>

\* The element that stands for the code unit n.
CodeUnit(n) ==
  IF n \in 32..126 THEN Printable[n - 31]
  ELSE IF n = 9 THEN "\t"
  ELSE IF n = 10 THEN "\n"
  ELSE IF n = 12 THEN "\f"
  ELSE IF n = 13 THEN "\r"
  ELSE LET h == Hex4(n, HexUpper) IN "U+" \o h[1] \o h[2] \o h[3] \o h[4]

ControlUnits == {CodeUnit(n) : n \in 0..31}
HighSurrogates == {CodeUnit(n) : n \in 55296..56319}
LowSurrogates == {CodeUnit(n) : n \in 56320..57343}

\* ---------------------------------------------------------------- values

LIGHT == <<"l", "i", "g", "h", "t">>
DARK == <<"d", "a", "r", "k">>
BLUE == <<"b", "l", "u", "e">>

JsValue(t) ==
  [type |-> t, str |-> <<>>, bool |-> FALSE, neg |-> FALSE, digits |-> <<>>,
   exp |-> 0, inf |-> FALSE, keys |-> <<>>, items |-> <<>>]

Undefined == JsValue("undefined")
JsNull == JsValue("null")
JsString(s) == [JsValue("string") EXCEPT !.str = s]
JsBoolean(b) == [JsValue("boolean") EXCEPT !.bool = b]
\* A finite number: the digits and the exponent of its shortest decimal; no
\* digits for zero.
JsNumber(neg, digits, exp) ==
  [JsValue("number") EXCEPT !.neg = neg, !.digits = digits, !.exp = exp]
JsInfinity(neg) == [JsValue("number") EXCEPT !.neg = neg, !.inf = TRUE]
JsArray(items) == [JsValue("array") EXCEPT !.items = items]
JsObject(keys, items) ==
  [JsValue("object") EXCEPT !.keys = keys, !.items = items]

\* The storage key and the default passed by useColorMode.
KEY == "color-mode"
InitialValue == JsString(DARK)

\* The two values the theme is meant to take.
Modes == {JsString(LIGHT), JsString(DARK)}

\* ------------------------------------------------------------ JSON.parse

IsDigit(c) == \E d \in 1..10 : Digits[d] = c

DigitValue(c) == (CHOOSE d \in 1..10 : Digits[d] = c) - 1

IsHex(c) == \E d \in 1..16 : HexLower[d] = c \/ HexUpper[d] = c

HexDigitValue(c) ==
  (CHOOSE d \in 1..16 : HexLower[d] = c \/ HexUpper[d] = c) - 1

RECURSIVE NumberValue(_)
\* The value of a short run of decimal digits.
NumberValue(t) ==
  IF Len(t) = 0 THEN 0
  ELSE 10 * NumberValue(SubSeq(t, 1, Len(t) - 1)) + DigitValue(t[Len(t)])

RECURSIVE NumberText(_)
\* The decimal digits of a natural number.
NumberText(n) ==
  IF n < 10 THEN <<Digits[n + 1]>>
  ELSE NumberText(n \div 10) \o <<Digits[(n % 10) + 1]>>

Zeros(n) == [i \in 1..n |-> "0"]

\* The number of zeros that a run of digits starts with.
LeadingZeros(t) ==
  IF \A i \in 1..Len(t) : t[i] = "0" THEN Len(t)
  ELSE (CHOOSE i \in 1..Len(t) :
          t[i] # "0" /\ \A j \in 1..(i - 1) : t[j] = "0") - 1

\* A run of digits without the zeros that it ends with.
StripTrailingZeros(t) ==
  IF \A i \in 1..Len(t) : t[i] = "0" THEN <<>>
  ELSE SubSeq(t, 1, CHOOSE i \in 1..Len(t) :
                      t[i] # "0" /\ \A j \in (i + 1)..Len(t) : t[j] = "0")

DigitsLess(a, b) ==
  \/ Len(a) < Len(b)
  \/ /\ Len(a) = Len(b)
     /\ \E i \in 1..Len(a) :
          /\ DigitValue(a[i]) < DigitValue(b[i])
          /\ \A j \in 1..(i - 1) : a[j] = b[j]

\* Exact arithmetic.  A natural number of any size is the sequence of its
\* base-10^6 limbs, the least significant first, with no zero limb at the
\* top; zero is the empty sequence.
Base == 1000000
LimbDigits == 6

Trim(a) ==
  IF \A i \in 1..Len(a) : a[i] = 0 THEN <<>>
  ELSE SubSeq(a, 1, CHOOSE i \in 1..Len(a) :
                      a[i] # 0 /\ \A j \in (i + 1)..Len(a) : a[j] = 0)

\* The limbs of a run of decimal digits: limb i holds the digits
\* 6 * (i - 1) + 1 .. 6 * i, counted from the right.
LimbsOf(t) ==
  [i \in 1..((Len(t) + LimbDigits - 1) \div LimbDigits) |->
     NumberValue(SubSeq(t,
                        IF Len(t) - LimbDigits * i + 1 < 1 THEN 1
                        ELSE Len(t) - LimbDigits * i + 1,
                        Len(t) - LimbDigits * (i - 1)))]

\* The natural number that a run of decimal digits denotes.
NaturalOf(t) == Trim(LimbsOf(t))

\* The decimal digit of the limb x at 10^n.
LimbDigit(x, n) == Digits[((x \div (10 ^ n)) % 10) + 1]

\* The digits of the natural number a, of which top are those of the top
\* limb.
DigitsWith(a, top) ==
  [p \in 1..(Len(top) + LimbDigits * (Len(a) - 1)) |->
     IF p <= Len(top) THEN top[p]
     ELSE LimbDigit(a[Len(a) - 1 - ((p - Len(top) - 1) \div LimbDigits)],
                    LimbDigits - 1 - ((p - Len(top) - 1) % LimbDigits))]

\* The decimal digits of a natural number.
DigitsOf(a) ==
  IF Len(a) = 0 THEN <<"0">> ELSE DigitsWith(a, NumberText(a[Len(a)]))

\* -1, 0 or 1 as a is less than, equal to or greater than b: the top limb
\* in which they differ decides.
CompareAt(a, b, i) == IF a[i] < b[i] THEN -1 ELSE 1

Compare(a, b) ==
  IF Len(a) < Len(b) THEN -1
  ELSE IF Len(a) > Len(b) THEN 1
  ELSE IF a = b THEN 0
  ELSE CompareAt(a, b, CHOOSE i \in 1..Len(a) :
                         a[i] # b[i] /\ \A j \in (i + 1)..Len(a) : a[j] = b[j])

RECURSIVE Carried(_, _, _, _)

CarriedJoin(left, right) ==
  [limbs |-> left.limbs \o right.limbs, carry |-> right.carry]

CarriedUpper(v, mid, hi, left) ==
  CarriedJoin(left, Carried(v, mid + 1, hi, left.carry))

\* The limbs lo..hi of the number whose columns are v, after the carry c
\* into lo, and the carry out of hi.
Carried(v, lo, hi, c) ==
  IF lo > hi THEN [limbs |-> <<>>, carry |-> c]
  ELSE IF lo = hi
    THEN [limbs |-> <<(v[lo] + c) % Base>>, carry |-> (v[lo] + c) \div Base]
  ELSE CarriedUpper(v, (lo + hi) \div 2, hi,
                    Carried(v, lo, (lo + hi) \div 2, c))

WithCarry(r) ==
  Trim(IF r.carry = 0 THEN r.limbs ELSE Append(r.limbs, r.carry))

\* The natural number whose columns are v.
Normal(v) == WithCarry(Carried(v, 1, Len(v), 0))

Limb(a, i) == IF i <= Len(a) THEN a[i] ELSE 0

\* a * c for a factor c of at most 2000.
Times(a, c) == Normal([i \in 1..Len(a) |-> a[i] * c])

Plus(a, b) ==
  Normal([i \in 1..(IF Len(a) > Len(b) THEN Len(a) ELSE Len(b)) |->
            Limb(a, i) + Limb(b, i)])

\* a - b, for a >= b.
Minus(a, b) == Normal([i \in 1..Len(a) |-> a[i] - Limb(b, i)])

RECURSIVE TimesTwoTo(_, _)
\* a * 2^n.
TimesTwoTo(a, n) ==
  IF a = <<>> THEN a
  ELSE IF n <= 10 THEN Times(a, 2 ^ n)
  ELSE TimesTwoTo(TimesTwoTo(a, n \div 2), n - (n \div 2))

RECURSIVE TimesFiveTo(_, _)
\* a * 5^n.
TimesFiveTo(a, n) ==
  IF a = <<>> THEN a
  ELSE IF n <= 4 THEN Times(a, 5 ^ n)
  ELSE TimesFiveTo(TimesFiveTo(a, n \div 2), n - (n \div 2))

Odd(a) == Len(a) > 0 /\ a[1] % 2 = 1

\* An integer of any size: a sign and a natural number.
Integer(neg, mag) == [neg |-> neg /\ mag # <<>>, mag |-> mag]

\* The integer n, for n within 32 bits.
IntegerOf(n) ==
  IF n < 0 THEN Integer(TRUE, NaturalOf(NumberText(0 - n)))
  ELSE Integer(FALSE, NaturalOf(NumberText(n)))

Sum(x, y) ==
  IF x.neg = y.neg THEN Integer(x.neg, Plus(x.mag, y.mag))
  ELSE IF Compare(x.mag, y.mag) >= 0
    THEN Integer(x.neg, Minus(x.mag, y.mag))
  ELSE Integer(y.neg, Minus(y.mag, x.mag))

\* The value of a one-limb integer.
Small(x) ==
  IF x.mag = <<>> THEN 0 ELSE IF x.neg THEN 0 - x.mag[1] ELSE x.mag[1]

\* The value of the digits of an exponent.
ExponentValue(t) == NaturalOf(t)

\* A double is m * 2^q with m < 2^53 and -1074 <= q <= 971, and with
\* m >= 2^52 unless q = -1074.
TwoTo52 == TimesTwoTo(<<1>>, 52)
TwoTo53 == TimesTwoTo(<<1>>, 53)
MinExponent == -1074
MaxExponent == 971

\* The fraction n / d times 2^e.
Fraction(n, d, e) == [n |-> n, d |-> d, e |-> e]

RECURSIVE ScaledDown(_, _)
\* The fraction s with s.n / s.d < 2, by steps of 2^k, 2^(k-1), ... , 2.
ScaledDown(s, k) ==
  IF k = 0 THEN s
  ELSE IF Compare(s.n, TimesTwoTo(s.d, 2 ^ (k - 1))) >= 0
    THEN ScaledDown(Fraction(s.n, TimesTwoTo(s.d, 2 ^ (k - 1)),
                             s.e + 2 ^ (k - 1)), k)
  ELSE ScaledDown(s, k - 1)

RECURSIVE ScaledUp(_, _)
\* The fraction s with s.n / s.d >= 1.
ScaledUp(s, k) ==
  IF k = 0
    THEN (IF Compare(s.n, s.d) < 0
            THEN Fraction(Times(s.n, 2), s.d, s.e - 1) ELSE s)
  ELSE IF Compare(TimesTwoTo(s.n, 2 ^ (k - 1)), s.d) <= 0
    THEN ScaledUp(Fraction(TimesTwoTo(s.n, 2 ^ (k - 1)), s.d,
                           s.e - 2 ^ (k - 1)), k)
  ELSE ScaledUp(s, k - 1)

\* The fraction s, which is not zero, with 1 <= s.n / s.d < 2.
Scaled(s) ==
  IF Compare(s.n, s.d) >= 0 THEN ScaledDown(s, 3) ELSE ScaledUp(s, 3)

\* The fraction s with e binary digits moved to the exponent.
Shifted(s, e) ==
  IF e >= 0 THEN Fraction(s.n, TimesTwoTo(s.d, e), s.e + e)
  ELSE Fraction(TimesTwoTo(s.n, 0 - e), s.d, s.e + e)

\* A decimal with exponent ex lies between 10^ex and 10^(ex + 1), so its
\* binary exponent is near ex * log2(10).
BinaryEstimate(ex) == (ex * 3322) \div 1000

\* The next binary digit of qt.r / d, for qt.r < 2 * d, appended to qt.m,
\* and twice what is left of qt.r.
QuotientDigit(qt, d) ==
  IF Compare(qt.r, d) >= 0
    THEN [m |-> Plus(Times(qt.m, 2), <<1>>), r |-> Times(Minus(qt.r, d), 2)]
    ELSE [m |-> Times(qt.m, 2), r |-> Times(qt.r, 2)]

RECURSIVE Quotient(_, _, _)
\* The next cnt binary digits.
Quotient(qt, d, cnt) ==
  IF (qt.m = <<>> /\ qt.r = <<>>) \/ cnt = 0 THEN qt
  ELSE IF cnt = 1 THEN QuotientDigit(qt, d)
  ELSE Quotient(Quotient(qt, d, cnt \div 2), d, cnt - (cnt \div 2))

\* Round to nearest, ties to even: what is left is compared with a half.
RoundedUp(qt, d) ==
  \/ Compare(qt.r, d) > 0
  \/ Compare(qt.r, d) = 0 /\ Odd(qt.m)

\* The significand m and the exponent q after rounding; a significand of
\* 2^53 is 2^52 with the next exponent.
Significand(m, q) ==
  IF m = TwoTo53 THEN [m |-> TwoTo52, q |-> q + 1] ELSE [m |-> m, q |-> q]

RoundedSignificand(qt, d, q) ==
  Significand(IF RoundedUp(qt, d) THEN Plus(qt.m, <<1>>) ELSE qt.m, q)

\* The double nearest to s.n / s.d * 2^(s.e), with cnt binary digits.
NearestWith(s, cnt) ==
  RoundedSignificand(Quotient([m |-> <<>>, r |-> s.n], s.d, cnt), s.d,
                     s.e - cnt + 1)

\* A number below the least normal number has fewer than 53 digits.
NearestTo(s) ==
  IF s.e < MinExponent - 1 THEN [m |-> <<>>, q |-> MinExponent]
  ELSE IF s.e < MinExponent + 52 THEN NearestWith(s, s.e - MinExponent + 1)
  ELSE NearestWith(s, 53)

\* The decimal sig * 10^k as a fraction.
FractionOf(sig, k) ==
  IF k >= 0 THEN Fraction(NaturalOf(sig \o Zeros(k)), <<1>>, 0)
  ELSE Fraction(NaturalOf(sig), NaturalOf(<<"1">> \o Zeros(0 - k)), 0)

\* The double nearest to sig * 10^k, for digits sig that start with a
\* digit other than 0.
NearestDouble(sig, k) ==
  NearestTo(Scaled(Shifted(FractionOf(sig, k),
                           BinaryEstimate(k + Len(sig) - 1))))

\* a * 2^(q - 2) as a multiple of a power of ten: a * 2^(q - 2) when
\* q >= 2, and (a * 5^(2 - q)) * 10^(q - 2) otherwise.
InQuarters(a, q) ==
  IF q >= 2 THEN TimesTwoTo(a, q - 2) ELSE TimesFiveTo(a, 2 - q)

QuarterExponent(q) == IF q >= 2 THEN 0 ELSE q - 2

\* The decimals that round to the double m * 2^q lie between lo and hi,
\* half way to its neighbours; below a power of two the lower neighbour is
\* at half the distance.
UpperBound(x, u) == Plus(x, Times(u, 2))
LowerBound(x, u, m, q) ==
  IF m = TwoTo52 /\ q > MinExponent THEN Minus(x, u) ELSE Minus(x, Times(u, 2))

PadTo(t, n) == Zeros(n - Len(t)) \o t

AllNines(t) == \A i \in 1..Len(t) : t[i] = "9"

RECURSIVE Increment(_)
\* The digits of the successor of a run of digits that are not all 9.
Increment(t) ==
  IF t[Len(t)] = "9" THEN Increment(SubSeq(t, 1, Len(t) - 1)) \o <<"0">>
  ELSE SubSeq(t, 1, Len(t) - 1) \o <<Digits[DigitValue(t[Len(t)]) + 2]>>

\* The decimals of j digits next to x, below and above.
Below(x, j) == SubSeq(x, 1, j) \o Zeros(Len(x) - j)
Above(x, j) == Increment(SubSeq(x, 1, j)) \o Zeros(Len(x) - j)

\* A bound belongs to the interval when the significand is even.
BelowFits(x, lo, even, j) ==
  IF even THEN ~DigitsLess(Below(x, j), lo) ELSE DigitsLess(lo, Below(x, j))

AboveFits(x, hi, even, j) ==
  /\ ~AllNines(SubSeq(x, 1, j))
  /\ IF even THEN ~DigitsLess(hi, Above(x, j))
     ELSE DigitsLess(Above(x, j), hi)

\* The decimal above is the closer one of the two; at equal distance the
\* one with an even last digit is taken.
AboveCloser(x, j) ==
  /\ j < Len(x)
  /\ \/ DigitValue(x[j + 1]) > 5
     \/ /\ x[j + 1] = "5"
        /\ \/ \E i \in (j + 2)..Len(x) : x[i] # "0"
           \/ DigitValue(x[j]) % 2 = 1

RECURSIVE Shortest(_, _, _, _, _)
\* The decimal of the fewest digits, j or more, that rounds to x; of two,
\* the one closer to x.
Shortest(x, lo, hi, even, j) ==
  IF BelowFits(x, lo, even, j) /\ AboveFits(x, hi, even, j)
    THEN (IF AboveCloser(x, j) THEN Above(x, j) ELSE Below(x, j))
  ELSE IF BelowFits(x, lo, even, j) THEN Below(x, j)
  ELSE IF AboveFits(x, hi, even, j) THEN Above(x, j)
  ELSE Shortest(x, lo, hi, even, j + 1)

\* The number whose digits c, with leading zeros, count units of 10^t.
Finite(neg, c, t) ==
  JsNumber(neg,
           StripTrailingZeros(SubSeq(c, LeadingZeros(c) + 1, Len(c))),
           (Len(c) - 1 - LeadingZeros(c)) + t)

ShortestIn(neg, x, lo, hi, even, t) ==
  Finite(neg,
         Shortest(PadTo(DigitsOf(x), Len(DigitsOf(hi))),
                  PadTo(DigitsOf(lo), Len(DigitsOf(hi))),
                  DigitsOf(hi), even, 1),
         t)

ShortestAround(neg, x, u, m, q) ==
  ShortestIn(neg, x, LowerBound(x, u, m, q), UpperBound(x, u), ~Odd(m),
             QuarterExponent(q))

\* The number value of the double b.
NumberOf(neg, b) ==
  IF b.m = <<>> THEN JsNumber(neg, <<>>, 0)
  ELSE IF b.q > MaxExponent THEN JsInfinity(neg)
  ELSE ShortestAround(neg, InQuarters(Times(b.m, 4), b.q),
                      InQuarters(<<1>>, b.q), b.m, b.q)

\* The number nearest to the decimal with significant digits sig and
\* exponent ex: d1.d2...dn * 10^ex.
Rounded(neg, sig, ex) ==
  IF sig = <<>> THEN JsNumber(neg, <<>>, 0)
  ELSE IF ~ex.neg /\ Compare(ex.mag, <<309>>) >= 0 THEN JsInfinity(neg)
  ELSE IF ex.neg /\ Compare(ex.mag, <<325>>) >= 0
    THEN JsNumber(neg, <<>>, 0)
  ELSE NumberOf(neg, NearestDouble(sig, Small(ex) - (Len(sig) - 1)))

Normalized(neg, all, lead, ex) ==
  Rounded(neg, StripTrailingZeros(SubSeq(all, lead + 1, Len(all))),
          Sum(ex, IntegerOf(0 - lead)))

\* The number denoted by integer digits, fraction digits and exponent.
Decimal(neg, int, frac, e) ==
  Normalized(neg, int \o frac, LeadingZeros(int \o frac),
             Sum(IntegerOf(Len(int) - 1), e))

\* A parse step: the value read and the position after it, or ok = FALSE.
Fail == [ok |-> FALSE, val |-> Undefined, pos |-> 0]
Read(v, p) == [ok |-> TRUE, val |-> v, pos |-> p]

JsonWhitespace == {" ", "\t", "\n", "\r"}

\* The first position from p on that holds no whitespace.
SkipWs(t, p) ==
  IF \A i \in p..Len(t) : t[i] \in JsonWhitespace
    THEN (IF p > Len(t) THEN p ELSE Len(t) + 1)
  ELSE CHOOSE q \in p..Len(t) :
         t[q] \notin JsonWhitespace
         /\ \A i \in p..(q - 1) : t[i] \in JsonWhitespace

\* The index of the last digit of the run of digits that starts at p.
DigitRunEnd(t, p) ==
  IF \A i \in p..Len(t) : IsDigit(t[i])
    THEN (IF p > Len(t) THEN p - 1 ELSE Len(t))
  ELSE (CHOOSE q \in p..Len(t) :
          ~IsDigit(t[q]) /\ \A i \in p..(q - 1) : IsDigit(t[i])) - 1

\* The digits e0..eEnd of the exponent end the number.
NumberEnd(t, neg, int, frac, eneg, e0, eEnd) ==
  IF eEnd < e0 THEN Fail
  ELSE Read(Decimal(neg, int, frac,
                    Integer(eneg, ExponentValue(SubSeq(t, e0, eEnd)))),
            eEnd + 1)

\* The optional exponent after the mantissa, which ends at fEnd.
NumberExponent(t, neg, int, frac, fEnd) ==
  IF fEnd + 1 <= Len(t) /\ t[fEnd + 1] \in {"e", "E"}
    THEN IF fEnd + 2 <= Len(t) /\ t[fEnd + 2] \in {"+", "-"}
           THEN NumberEnd(t, neg, int, frac, t[fEnd + 2] = "-", fEnd + 3,
                          DigitRunEnd(t, fEnd + 3))
           ELSE NumberEnd(t, neg, int, frac, FALSE, fEnd + 2,
                          DigitRunEnd(t, fEnd + 2))
    ELSE Read(Decimal(neg, int, frac, IntegerOf(0)), fEnd + 1)

\* The fraction digits f0..fEnd.
NumberFraction(t, neg, int, f0, fEnd) ==
  IF fEnd < f0 THEN Fail
  ELSE NumberExponent(t, neg, int, SubSeq(t, f0, fEnd), fEnd)

\* The integer digits i0..iEnd and the optional fraction after them.
NumberInteger(t, neg, i0, iEnd) ==
  IF iEnd < i0 THEN Fail
  ELSE IF iEnd + 1 <= Len(t) /\ t[iEnd + 1] = "."
    THEN NumberFraction(t, neg, SubSeq(t, i0, iEnd), iEnd + 2,
                        DigitRunEnd(t, iEnd + 2))
  ELSE NumberExponent(t, neg, SubSeq(t, i0, iEnd), <<>>, iEnd)

\* The digits from i0 on: a single 0, or a run of digits.
NumberDigits(t, neg, i0) ==
  NumberInteger(t, neg, i0,
                IF i0 <= Len(t) /\ t[i0] = "0" THEN i0
                ELSE DigitRunEnd(t, i0))

\* A JSON number that starts at p.
ParseNumber(t, p) ==
  IF t[p] = "-" THEN NumberDigits(t, TRUE, p + 1)
  ELSE NumberDigits(t, FALSE, p)

\* The code unit a two-character escape stands for.
SimpleEscapes == {QUOTE, BACKSLASH, "/", "b", "f", "n", "r", "t"}
Unescape(c) ==
  IF c = "b" THEN CodeUnit(8)
  ELSE IF c = "f" THEN "\f"
  ELSE IF c = "n" THEN "\n"
  ELSE IF c = "r" THEN "\r"
  ELSE IF c = "t" THEN "\t"
  ELSE c

\* The number of backslashes in a row that end before position i of a
\* string whose first unit is at p.
BackslashRun(t, p, i) ==
  CHOOSE k \in 0..(i - p) :
    /\ \A j \in 1..k : t[i - j] = BACKSLASH
    /\ (k = i - p \/ t[i - k - 1] # BACKSLASH)

\* The unit at i follows the backslash that starts an escape.
Escaped(t, p, i) == BackslashRun(t, p, i) % 2 = 1

StartsEscape(t, p, i) == t[i] = BACKSLASH /\ ~Escaped(t, p, i)

Closes(t, p, i) == t[i] = QUOTE /\ ~Escaped(t, p, i)

\* The unit at i is one of the four digits of a \u escape.
InUnicodeEscape(t, p, i) ==
  \E k \in 2..5 :
    i - k >= p /\ t[i - k + 1] = "u" /\ StartsEscape(t, p, i - k)

\* The unit at i is allowed: an escape is one of the two-character escapes
\* or \u and four hexadecimal digits, any other unit is not a control.
ValidAt(t, p, i) ==
  IF Escaped(t, p, i) THEN TRUE
  ELSE IF t[i] = BACKSLASH
    THEN /\ i + 1 <= Len(t)
         /\ \/ t[i + 1] \in SimpleEscapes
            \/ /\ t[i + 1] = "u"
               /\ i + 5 <= Len(t)
               /\ \A k \in 2..5 : IsHex(t[i + k])
  ELSE t[i] \notin ControlUnits

\* The code unit that the text at i stands for.
UnitAt(t, i) ==
  IF t[i] # BACKSLASH THEN t[i]
  ELSE IF t[i + 1] = "u"
    THEN CodeUnit(4096 * HexDigitValue(t[i + 2]) + 256 * HexDigitValue(t[i + 3])
                  + 16 * HexDigitValue(t[i + 4]) + HexDigitValue(t[i + 5]))
  ELSE Unescape(t[i + 1])

\* The positions in p..(e - 1) where a unit or an escape starts.
UnitStarts(t, p, e) ==
  SelectSeq([i \in 1..(e - p) |-> p + i - 1],
            LAMBDA i : ~Escaped(t, p, i) /\ ~InUnicodeEscape(t, p, i))

Units(t, starts) == [n \in 1..Len(starts) |-> UnitAt(t, starts[n])]

\* The string whose closing quote is at e.
StringUpTo(t, p, e) ==
  IF \A i \in p..(e - 1) : ValidAt(t, p, i)
    THEN Read(JsString(Units(t, UnitStarts(t, p, e))), e + 1)
    ELSE Fail

\* The rest of a JSON string whose opening quote is before p.
ParseChars(t, p) ==
  IF \E i \in p..Len(t) : Closes(t, p, i)
    THEN StringUpTo(t, p, CHOOSE e \in p..Len(t) :
                            Closes(t, p, e)
                            /\ \A i \in p..(e - 1) : ~Closes(t, p, i))
    ELSE Fail

\* An array index: the canonical text of an integer in 0 .. 2^32 - 2.
MaxArrayIndex == <<"4", "2", "9", "4", "9", "6", "7", "2", "9", "4">>

IsArrayIndex(k) ==
  /\ Len(k) >= 1
  /\ \A i \in 1..Len(k) : IsDigit(k[i])
  /\ (Len(k) > 1 => k[1] # "0")
  /\ (k = MaxArrayIndex \/ DigitsLess(k, MaxArrayIndex))

\* The properties of an object after the property k is given the value v:
\* an existing property keeps its place, a new array index goes among the
\* array indices in ascending order, any other new key goes last.
DefineProperty(ks, vs, k, v) ==
  IF \E i \in 1..Len(ks) : ks[i] = k
    THEN LET i == CHOOSE i \in 1..Len(ks) : ks[i] = k
         IN [keys |-> ks, items |-> [vs EXCEPT ![i] = v]]
  ELSE LET before == IF IsArrayIndex(k)
                       THEN Cardinality({i \in 1..Len(ks) :
                              IsArrayIndex(ks[i]) /\ DigitsLess(ks[i], k)})
                       ELSE Len(ks)
       IN [keys |-> SubSeq(ks, 1, before) \o <<k>>
                      \o SubSeq(ks, before + 1, Len(ks)),
           items |-> SubSeq(vs, 1, before) \o <<v>>
                       \o SubSeq(vs, before + 1, Len(vs))]

Matches(t, p, word) ==
  p + Len(word) - 1 <= Len(t) /\ SubSeq(t, p, p + Len(word) - 1) = word

RECURSIVE ParseValue(_, _)
RECURSIVE ParseElements(_, _, _)
RECURSIVE ParseMembers(_, _, _, _)

\* After an element of an array, at q: a comma or the closing bracket.
ElementsNext(t, q, acc) ==
  IF q > Len(t) THEN Fail
  ELSE IF t[q] = "," THEN ParseElements(t, SkipWs(t, q + 1), acc)
  ELSE IF t[q] = "]" THEN Read(JsArray(acc), q + 1)
  ELSE Fail

ElementsAfter(t, r, acc) ==
  IF ~r.ok THEN Fail
  ELSE ElementsNext(t, SkipWs(t, r.pos), Append(acc, r.val))

\* The elements of an array from p on.
ParseElements(t, p, acc) == ElementsAfter(t, ParseValue(t, p), acc)

\* After a member of an object, at q: a comma or the closing brace.
MembersNext(t, q, m) ==
  IF q > Len(t) THEN Fail
  ELSE IF t[q] = "," THEN ParseMembers(t, SkipWs(t, q + 1), m.keys, m.items)
  ELSE IF t[q] = "}" THEN Read(JsObject(m.keys, m.items), q + 1)
  ELSE Fail

MemberAfter(t, key, r, ks, vs) ==
  IF ~r.ok THEN Fail
  ELSE MembersNext(t, SkipWs(t, r.pos), DefineProperty(ks, vs, key, r.val))

MemberValue(t, key, c, ks, vs) ==
  IF c > Len(t) \/ t[c] # ":" THEN Fail
  ELSE MemberAfter(t, key, ParseValue(t, SkipWs(t, c + 1)), ks, vs)

MemberColon(t, k, ks, vs) ==
  IF ~k.ok THEN Fail
  ELSE MemberValue(t, k.val.str, SkipWs(t, k.pos), ks, vs)

\* The members of an object from p on.
ParseMembers(t, p, ks, vs) ==
  IF p > Len(t) \/ t[p] # QUOTE THEN Fail
  ELSE MemberColon(t, ParseChars(t, p + 1), ks, vs)

\* After the opening bracket, at q.
ArrayAt(t, q) ==
  IF q <= Len(t) /\ t[q] = "]" THEN Read(JsArray(<<>>), q + 1)
  ELSE ParseElements(t, q, <<>>)

\* After the opening brace, at q.
ObjectAt(t, q) ==
  IF q <= Len(t) /\ t[q] = "}" THEN Read(JsObject(<<>>, <<>>), q + 1)
  ELSE ParseMembers(t, q, <<>>, <<>>)

\* A JSON value that starts at p.
ParseValue(t, p) ==
  IF p > Len(t) THEN Fail
  ELSE IF t[p] = QUOTE THEN ParseChars(t, p + 1)
  ELSE IF t[p] = "[" THEN ArrayAt(t, SkipWs(t, p + 1))
  ELSE IF t[p] = "{" THEN ObjectAt(t, SkipWs(t, p + 1))
  ELSE IF Matches(t, p, <<"t", "r", "u", "e">>)
    THEN Read(JsBoolean(TRUE), p + 4)
  ELSE IF Matches(t, p, <<"f", "a", "l", "s", "e">>)
    THEN Read(JsBoolean(FALSE), p + 5)
  ELSE IF Matches(t, p, <<"n", "u", "l", "l">>) THEN Read(JsNull, p + 4)
  ELSE IF t[p] = "-" \/ IsDigit(t[p]) THEN ParseNumber(t, p)
  ELSE Fail

\* The text is one value and whitespace around it.
Complete(t, r) ==
  IF r.ok /\ SkipWs(t, r.pos) > Len(t)
    THEN [ok |-> TRUE, val |-> r.val]
    ELSE [ok |-> FALSE, val |-> Undefined]

\* JSON.parse: the parsed value, or ok = FALSE when it throws SyntaxError.
JSONparse(t) == Complete(t, ParseValue(t, SkipWs(t, 1)))

\* -------------------------------------------------------- JSON.stringify

\* Number::toString of a finite number.
NumberToString(v) ==
  LET k == Len(v.digits)
      n == v.exp + 1
      d == v.digits
      body ==
        IF k <= n /\ n <= 21 THEN d \o Zeros(n - k)
        ELSE IF 0 < n /\ n <= 21
          THEN SubSeq(d, 1, n) \o <<".">> \o SubSeq(d, n + 1, k)
        ELSE IF -6 < n /\ n <= 0 THEN <<"0", ".">> \o Zeros(0 - n) \o d
        ELSE LET e == n - 1
                 tail == <<"e", IF e < 0 THEN "-" ELSE "+">>
                           \o NumberText(IF e < 0 THEN 0 - e ELSE e)
             IN IF k = 1 THEN d \o tail
                ELSE <<d[1], ".">> \o SubSeq(d, 2, k) \o tail
  IN IF k = 0 THEN <<"0">>
     ELSE IF v.neg THEN <<"-">> \o body
     ELSE body

\* The code unit that a control or surrogate element stands for.
CodeOf(c, range) == CHOOSE n \in range : CodeUnit(n) = c

\* The text of the code unit at i of s inside a JSON string.
QuoteUnit(s, i) ==
  LET c == s[i] IN
  IF c = QUOTE THEN <<BACKSLASH, QUOTE>>
  ELSE IF c = BACKSLASH THEN <<BACKSLASH, BACKSLASH>>
  ELSE IF c = "\t" THEN <<BACKSLASH, "t">>
  ELSE IF c = "\n" THEN <<BACKSLASH, "n">>
  ELSE IF c = "\f" THEN <<BACKSLASH, "f">>
  ELSE IF c = "\r" THEN <<BACKSLASH, "r">>
  ELSE IF Len(c) = 1 THEN <<c>>
  ELSE IF c = CodeUnit(8) THEN <<BACKSLASH, "b">>
  ELSE IF c \in ControlUnits
    THEN <<BACKSLASH, "u">> \o Hex4(CodeOf(c, 0..31), HexLower)
  ELSE IF c \in HighSurrogates
    THEN IF i < Len(s) /\ s[i + 1] \in LowSurrogates THEN <<c>>
         ELSE <<BACKSLASH, "u">> \o Hex4(CodeOf(c, 55296..56319), HexLower)
  ELSE IF c \in LowSurrogates
    THEN IF i > 1 /\ s[i - 1] \in HighSurrogates THEN <<c>>
         ELSE <<BACKSLASH, "u">> \o Hex4(CodeOf(c, 56320..57343), HexLower)
  ELSE <<c>>

RECURSIVE QuoteFrom(_, _, _)
\* The text of the code units lo..hi.
QuoteFrom(s, lo, hi) ==
  IF lo > hi THEN <<>>
  ELSE IF lo = hi THEN QuoteUnit(s, lo)
  ELSE QuoteFrom(s, lo, (lo + hi) \div 2)
       \o QuoteFrom(s, (lo + hi) \div 2 + 1, hi)

\* QuoteJSONString.
QuoteJSONString(s) == <<QUOTE>> \o QuoteFrom(s, 1, Len(s)) \o <<QUOTE>>

RECURSIVE SerializeJSONProperty(_)
RECURSIVE SerializeList(_, _, _, _)

\* The indices of the items that are serialized, in order: every element of
\* an array, and the members of an object whose value does not serialize to
\* undefined.
Serialized(v) ==
  SelectSeq([i \in 1..Len(v.items) |-> i],
            LAMBDA i : v.type = "array" \/ v.items[i].type # "undefined")

\* The text of the items idx[lo..hi], separated by commas; a member of an
\* object is preceded by its key, and an element of an array that
\* serializes to undefined is written null.
SerializeList(v, idx, lo, hi) ==
  IF lo > hi THEN <<>>
  ELSE IF lo = hi
    THEN LET item == SerializeJSONProperty(v.items[idx[lo]]) IN
         (IF lo > 1 THEN <<",">> ELSE <<>>)
         \o (IF v.type = "object"
               THEN QuoteJSONString(v.keys[idx[lo]]) \o <<":">> ELSE <<>>)
         \o (IF item.type = "undefined" THEN <<"n", "u", "l", "l">>
             ELSE item.str)
  ELSE SerializeList(v, idx, lo, (lo + hi) \div 2)
       \o SerializeList(v, idx, (lo + hi) \div 2 + 1, hi)

\* SerializeJSONProperty: a string holding the JSON text of the value, or
\* undefined for undefined.
SerializeJSONProperty(v) ==
  IF v.type = "undefined" THEN Undefined
  ELSE IF v.type = "null" THEN JsString(<<"n", "u", "l", "l">>)
  ELSE IF v.type = "string" THEN JsString(QuoteJSONString(v.str))
  ELSE IF v.type = "number"
    THEN JsString(IF v.inf THEN <<"n", "u", "l", "l">>
                  ELSE NumberToString(v))
  ELSE IF v.type = "boolean"
    THEN JsString(IF v.bool THEN <<"t", "r", "u", "e">>
                  ELSE <<"f", "a", "l", "s", "e">>)
  ELSE LET idx == Serialized(v)
           body == SerializeList(v, idx, 1, Len(idx))
       IN IF v.type = "array" THEN JsString(<<"[">> \o body \o <<"]">>)
          ELSE JsString(<<"{">> \o body \o <<"}">>)

\* JSON.stringify(value) with no replacer and no indentation.
JSONstringify(v) == SerializeJSONProperty(v)

\* JsToString of what JSON.stringify returned, as setItem applies it.
JsToString(x) ==
  IF x.type = "undefined"
    THEN <<"u", "n", "d", "e", "f", "i", "n", "e", "d">>
    ELSE x.str

\* --------------------------------------------------------- localStorage

\* localStorage is a map from keys to texts.
EmptyStorage == [k \in {} |-> <<>>]
StorageWith(t) == [k \in {KEY} |-> t]

\* Texts the key can hold when the page is first loaded.
StoredTexts ==
  { <<QUOTE>> \o LIGHT \o <<QUOTE>>,
    <<QUOTE>> \o DARK \o <<QUOTE>>,
    <<QUOTE>> \o BLUE \o <<QUOTE>>,
    <<" ", QUOTE, BACKSLASH, "u", "0", "0", "6", "4", "a", "r", "k", QUOTE>>,
    <<"4", "2">>,
    <<"-", "1", ".", "5", "e", "2">>,
    <<"9", "0", "0", "7", "1", "9", "9", "2", "5", "4", "7", "4", "0", "9",
      "9", "3">>,
    <<"2", "e", "3", "0", "8">>,
    <<"t", "r", "u", "e">>,
    <<"n", "u", "l", "l">>,
    <<"[", QUOTE, "d", "a", "r", "k", QUOTE, "]">>,
    LIGHT,
    <<"{">>,
    <<>> }

\* window.localStorage.getItem(key): null when the key is absent.
GetItem(store, key) ==
  IF key \in DOMAIN store THEN JsString(store[key]) ELSE JsNull

\* window.localStorage.setItem(key, text).
SetItem(store, key, t) ==
  [k \in (DOMAIN store) \cup {key} |-> IF k = key THEN t ELSE store[k]]

\* JavaScript truthiness of the value returned by getItem.
Truthy(item) == item.type = "string" /\ Len(item.str) > 0


\* ------------------------------------------------------------------ state

VARIABLES
  storage,        \* window.localStorage of the origin
  getItemThrows,  \* reading storage throws (storage disabled by policy)
  setItemThrows,  \* writing storage throws (quota, permission)
  layoutDark,     \* the layout renders <body> with the class "dark"
  phase,          \* "unloaded" before the page has rendered, then "loaded"
  mounted,        \* the useColorMode instances of the page
  value,          \* the useState value of each instance
  pending,        \* effects scheduled by the last commit and not yet run
  bodyDark,       \* document.body.classList contains "dark"
  label,          \* the button text rendered for each instance
  consoleLog,     \* names of the errors passed to console.log
  uncaught,       \* an exception left the hook code
  itemAtLoad,     \* history: what getItem returned to the initializer
  lastCall,       \* history: the most recent setter call since the load
  lastArg,        \* history: the last argument given to each setter
  run,            \* history: the button pressed last and the modes its
                  \*          last consecutive presses saw
  repeated,       \* history: the last call repeated the call before it
  snap,           \* history: the state left by the first of the two calls
  expectReload    \* history: the mode set and persisted before the reload

vars == <<storage, getItemThrows, setItemThrows, layoutDark, phase, mounted,
          value, pending, bodyDark, label, consoleLog, uncaught, itemAtLoad,
          lastCall, lastArg, run, repeated, snap, expectReload>>

NoCall == [inst |-> 0, mode |-> Undefined]
NoRun == [inst |-> 0, seen |-> <<>>]
NoSnap == [value |-> Undefined, storage |-> EmptyStorage, bodyDark |-> FALSE]

\* ------------------------------------------------------- useLocalStorage

\* Variant: the stored item is never used.
UseStateInitializerDefaultOnly(store, getThrows, key, initialValue) ==
  [ret |-> initialValue, err |-> "none", thrown |-> FALSE,
   item |-> IF getThrows THEN Undefined ELSE GetItem(store, key)]

\* Variant: no try/catch around the read.
UseStateInitializerNoCatch(store, getThrows, key, initialValue) ==
  IF getThrows
    THEN [ret |-> Undefined, err |-> "none", thrown |-> TRUE,
          item |-> Undefined]
  ELSE LET item == GetItem(store, key) IN
    IF Truthy(item)
      THEN LET p == JSONparse(item.str) IN
        IF p.ok
          THEN [ret |-> p.val, err |-> "none", thrown |-> FALSE,
                item |-> item]
          ELSE [ret |-> Undefined, err |-> "none", thrown |-> TRUE,
                item |-> item]
      ELSE [ret |-> initialValue, err |-> "none", thrown |-> FALSE,
            item |-> item]

\* The useState initializer (lines 159-170).  ret is the initial state, err
\* the error given to console.log, thrown whether an exception escapes.
UseStateInitializer(store, getThrows, key, initialValue) ==
  IF getThrows
    THEN [ret |-> initialValue, err |-> "SecurityError", thrown |-> FALSE,
          item |-> Undefined]
  ELSE LET item == GetItem(store, key) IN
    IF Truthy(item)
      THEN LET p == JSONparse(item.str) IN
        IF p.ok
          THEN [ret |-> p.val, err |-> "none", thrown |-> FALSE,
                item |-> item]
          ELSE [ret |-> initialValue, err |-> "SyntaxError",
                thrown |-> FALSE, item |-> item]
      ELSE [ret |-> initialValue, err |-> "none", thrown |-> FALSE,
            item |-> item]

\* The identifiers in scope of the persist effect's closure, and the one the
\* effect reads (lines 176-178).
ScopeNames ==
  {"key", "initialValue", "value", "setValue", "useState", "useEffect",
   "useLocalStorage", "window", "JSON", "console"}
EffectIdentifier == "storedValue"

\* The body of the persist effect (lines 173-184).  typeof of an undeclared
\* identifier is "undefined", so the conditional takes its else branch, and
\* reading the identifier there throws ReferenceError inside the try.
PersistEffectBody(store, setThrows, key, val) ==
  IF EffectIdentifier \notin ScopeNames
    THEN [store |-> store, err |-> "ReferenceError", thrown |-> FALSE]
  ELSE LET valueToStore == IF EffectIdentifier = "value" THEN val
                           ELSE Undefined IN
    IF setThrows
      THEN [store |-> store, err |-> "QuotaExceededError", thrown |-> FALSE]
      ELSE [store |-> SetItem(store, key,
                             JsToString(JSONstringify(valueToStore))),
            err |-> "none", thrown |-> FALSE]

\* ------------------------------------------------------------ useColorMode

\* Variant: the class is added but never removed.
ClassEffectBodyAddOnly(colorMode, hasDark) ==
  IF colorMode = JsString(DARK) THEN TRUE ELSE hasDark

\* The class effect (lines 202-209): the class list after the effect.
ClassEffectBody(colorMode, hasDark) ==
  IF colorMode = JsString(DARK) THEN TRUE ELSE FALSE

\* ------------------------------------------------------ dark mode switch

\* Variant: the branches of the conditional are swapped.
ToggleSame(colorMode) ==
  IF colorMode = JsString(LIGHT) THEN JsString(LIGHT) ELSE JsString(DARK)

\* Variant: a mode that is not "light" or "dark" is passed on unchanged.
ToggleKeep(colorMode) ==
  IF colorMode = JsString(LIGHT) THEN JsString(DARK)
  ELSE IF colorMode = JsString(DARK) THEN JsString(LIGHT)
  ELSE colorMode

\* The argument the button gives the setter (line 236).
Toggle(colorMode) ==
  IF colorMode = JsString(LIGHT) THEN JsString(DARK) ELSE JsString(LIGHT)

\* The text the button renders (line 239).
Label(colorMode) ==
  IF colorMode = JsString(LIGHT) THEN "DARK" ELSE "LIGHT"

\* ------------------------------------------------------------------ React

\* Variant: the setter flips the state whatever its argument.
NextStateFlip(cur, arg) ==
  IF cur = JsString(LIGHT) THEN JsString(DARK) ELSE JsString(LIGHT)

\* A useState setter called with a plain value: the state becomes it.
NextState(cur, arg) == arg

\* Effects run in the order of the hooks: instance by instance, the persist
\* effect of useLocalStorage before the class effect of useColorMode.
EffectRank(e) == 2 * e[1] + (IF e[2] = "persist" THEN 0 ELSE 1)
NextEffect == CHOOSE e \in pending : \A f \in pending :
                EffectRank(e) <= EffectRank(f)

EffectsOf(is) == is \X {"persist", "class"}

Quiescent == phase = "loaded" /\ pending = {}

\* ---------------------------------------------------------------- actions

InitWith(m) ==
  /\ storage \in {EmptyStorage} \cup {StorageWith(t) : t \in StoredTexts}
  /\ getItemThrows \in BOOLEAN
  /\ setItemThrows \in BOOLEAN
  /\ layoutDark \in BOOLEAN
  /\ phase = "unloaded"
  /\ mounted = m
  /\ value = [i \in Instances |-> Undefined]
  /\ pending = {}
  /\ bodyDark = layoutDark
  /\ label = [i \in Instances |-> ""]
  /\ consoleLog = {}
  /\ uncaught = FALSE
  /\ itemAtLoad = Undefined
  /\ lastCall = NoCall
  /\ lastArg = [i \in Instances |-> Undefined]
  /\ run = NoRun
  /\ repeated = FALSE
  /\ snap = NoSnap
  /\ expectReload = Undefined

\* One useColorMode instance, as in the guide.
Init == InitWith({1})

\* Two parts of the page each use the hook.
InitTwo == InitWith(Instances)

\* First render of the page: every instance runs its initializer, and both
\* effects of every instance are scheduled.
Load ==
  /\ phase = "unloaded"
  /\ LET r == UseStateInitializer(storage, getItemThrows, KEY, InitialValue)
     IN /\ value' = [i \in Instances |->
                       IF i \in mounted /\ ~r.thrown THEN r.ret
                       ELSE Undefined]
        /\ label' = [i \in Instances |->
                       IF i \in mounted /\ ~r.thrown THEN Label(r.ret)
                       ELSE ""]
        /\ pending' = IF r.thrown THEN {} ELSE EffectsOf(mounted)
        /\ consoleLog' = consoleLog \cup ({r.err} \ {"none"})
        /\ uncaught' = (uncaught \/ r.thrown)
        /\ itemAtLoad' = r.item
  /\ phase' = "loaded"
  /\ UNCHANGED <<storage, getItemThrows, setItemThrows, layoutDark, mounted,
                 bodyDark, lastCall, lastArg, run, repeated, snap,
                 expectReload>>

\* The persist effect of instance i (useEffect with [key, value]).
PersistEffect(i) ==
  /\ pending # {}
  /\ NextEffect = <<i, "persist">>
  /\ LET r == PersistEffectBody(storage, setItemThrows, KEY, value[i])
     IN /\ storage' = r.store
        /\ consoleLog' = consoleLog \cup ({r.err} \ {"none"})
        /\ uncaught' = (uncaught \/ r.thrown)
  /\ pending' = pending \ {<<i, "persist">>}
  /\ UNCHANGED <<getItemThrows, setItemThrows, layoutDark, phase, mounted,
                 value, bodyDark, label, itemAtLoad, lastCall, lastArg,
                 run, repeated, snap, expectReload>>

\* The class effect of instance i (useEffect with [colorMode]).
ClassEffect(i) ==
  /\ pending # {}
  /\ NextEffect = <<i, "class">>
  /\ bodyDark' = ClassEffectBody(value[i], bodyDark)
  /\ pending' = pending \ {<<i, "class">>}
  /\ UNCHANGED <<storage, getItemThrows, setItemThrows, layoutDark, phase,
                 mounted, value, label, consoleLog, uncaught, itemAtLoad,
                 lastCall, lastArg, run, repeated, snap, expectReload>>

\* An event handler that calls the setter of instance c.inst with c.mode.
\* React flushes the effects of the previous commit before it handles an
\* event, re-renders, and schedules the effects of the instance when its
\* state changed.
Handler(c) ==
  /\ Quiescent
  /\ ~uncaught
  /\ LET newValue == [i \in Instances |->
                        IF i = c.inst THEN NextState(value[i], c.mode)
                        ELSE value[i]]
         changed == {i \in mounted : newValue[i] # value[i]}
     IN /\ value' = newValue
        /\ label' = [i \in Instances |->
                       IF i \in mounted THEN Label(newValue[i]) ELSE ""]
        /\ pending' = EffectsOf(changed)
        /\ lastCall' = c
        /\ lastArg' = [lastArg EXCEPT ![c.inst] = c.mode]
        /\ repeated' = (c = lastCall)
        /\ snap' = IF c = lastCall
                     THEN [value |-> value[c.inst], storage |-> storage,
                           bodyDark |-> bodyDark]
                     ELSE NoSnap
  /\ UNCHANGED <<storage, getItemThrows, setItemThrows, layoutDark, phase,
                 mounted, bodyDark, consoleLog, uncaught, itemAtLoad,
                 expectReload>>

\* setColorMode(m) called on its own.
SetMode(i, m) ==
  /\ i \in mounted
  /\ Handler([inst |-> i, mode |-> m])
  /\ run' = NoRun

\* The button of instance i is pressed (lines 235-237).
Press(i) ==
  /\ i \in mounted
  /\ Handler([inst |-> i, mode |-> Toggle(value[i])])
  /\ run' = [inst |-> i,
              seen |-> IF run.inst # i THEN <<value[i]>>
                       ELSE IF Len(run.seen) = 2
                         THEN <<run.seen[2], value[i]>>
                         ELSE Append(run.seen, value[i])]

\* The page is reloaded: the document and the in-memory state are
\* discarded, the storage is kept.
Reload ==
  /\ phase = "loaded"
  /\ phase' = "unloaded"
  /\ value' = [i \in Instances |-> Undefined]
  /\ label' = [i \in Instances |-> ""]
  /\ pending' = {}
  /\ bodyDark' = layoutDark
  /\ consoleLog' = {}
  /\ uncaught' = FALSE
  /\ itemAtLoad' = Undefined
  /\ lastCall' = NoCall
  /\ lastArg' = [i \in Instances |-> Undefined]
  /\ run' = NoRun
  /\ repeated' = FALSE
  /\ snap' = NoSnap
  /\ expectReload' = IF Quiescent /\ lastCall # NoCall
                       THEN lastCall.mode ELSE Undefined
  /\ UNCHANGED <<storage, getItemThrows, setItemThrows, layoutDark, mounted>>

Next ==
  \/ Load
  \/ \E i \in Instances : PersistEffect(i)
  \/ \E i \in Instances : ClassEffect(i)
  \/ \E i \in Instances, m \in Modes : SetMode(i, m)
  \/ \E i \in Instances : Press(i)
  \/ Reload

Spec == Init /\ [][Next]_vars

SpecTwo == InitTwo /\ [][Next]_vars


\* ---------------------------------------------------------------- claims

NoCallSinceLoad == phase = "loaded" /\ lastCall = NoCall
HasKey == KEY \in DOMAIN storage
Other(m) == CHOOSE x \in Modes : x # m

\* The JSON text of a string of letters: the letters between double quotes.
Quoted(s) == <<QUOTE>> \o s \o <<QUOTE>>

\* C1: a mode set with setMode, once the effects have run, is the mode the
\* hook returns after a reload.
RoundTripAcrossReload ==
  (NoCallSinceLoad /\ expectReload \in Modes) => value[1] = expectReload

\* C2: once the class effect has run, document.body has the class "dark"
\* exactly when the in-memory mode is "dark".
MarkerClassSynchronized ==
  (phase = "loaded" /\ <<1, "class">> \notin pending)
    => (bodyDark <=> value[1] = JsString(DARK))

MarkerClassRemoved ==
  /\ Quiescent
  /\ layoutDark
  /\ lastCall.mode = JsString(LIGHT)
  /\ value[1] = JsString(LIGHT)
  /\ ~bodyDark

\* C3: when the storage holds the JSON text of "light" or of "dark" and can
\* be read, the mode right after the load is that value.
LoadOfStoredValue ==
  \A v \in Modes :
    (NoCallSinceLoad /\ ~getItemThrows /\ HasKey
       /\ storage[KEY] = Quoted(v.str))
      => value[1] = v

StoredLightLoaded ==
  /\ NoCallSinceLoad
  /\ ~getItemThrows
  /\ HasKey
  /\ storage[KEY] = Quoted(LIGHT)
  /\ value[1] = JsString(LIGHT)

\* C4: when the key is absent, its text does not parse, or the read throws,
\* the load yields the initial value "dark" and no exception escapes.
ReadFallback ==
  (NoCallSinceLoad
     /\ (getItemThrows \/ ~HasKey \/ ~JSONparse(storage[KEY]).ok))
    => (value[1] = InitialValue /\ ~uncaught)

UnparsableFellBack ==
  /\ NoCallSinceLoad
  /\ ~getItemThrows
  /\ HasKey
  /\ storage[KEY] = <<"{">>
  /\ "SyntaxError" \in consoleLog
  /\ value[1] = InitialValue

\* C6: a second setMode(m) after setMode(m) and its effects leaves the
\* in-memory mode, the stored text and the class as the first call left them.
IdempotentSetMode ==
  (repeated /\ Quiescent) =>
    /\ value[lastCall.inst] = snap.value
    /\ storage = snap.storage
    /\ bodyDark = snap.bodyDark

SecondCallDone ==
  /\ repeated
  /\ Quiescent
  /\ lastCall.mode = JsString(LIGHT)
  /\ value[1] = JsString(LIGHT)

\* C7: a press passes the complement of the current mode to the setter, two
\* presses in a row restore the mode, and the label is "DARK" exactly when
\* the mode is "light", "LIGHT" otherwise.
ToggleControl ==
  phase = "loaded" =>
    /\ (label[1] = "DARK" <=> value[1] = JsString(LIGHT))
    /\ (label[1] = "LIGHT" <=> value[1] # JsString(LIGHT))
    /\ (run.inst = 1 /\ run.seen[Len(run.seen)] \in Modes
          => value[1] = Other(run.seen[Len(run.seen)]))
    /\ (run.inst = 1 /\ Len(run.seen) = 2 /\ run.seen[1] \in Modes
          => value[1] = run.seen[1])

PressedTwice ==
  /\ Quiescent
  /\ run.inst = 1
  /\ Len(run.seen) = 2
  /\ run.seen[1] = JsString(DARK)
  /\ value[1] = JsString(DARK)
  /\ label[1] = "LIGHT"

\* C8: once the persist effect has run and writes succeed, the storage
\* holds the JSON text of the current in-memory value.
DurableCopyConsistent ==
  (Quiescent /\ ~setItemThrows) =>
    (HasKey /\ storage[KEY] = JsToString(JSONstringify(value[1])))

\* The mode changes, within a session, only in the step of a setter call,
\* and it becomes the argument of that call.
ChangesOnlyBySetter ==
  (phase = "loaded" /\ phase' = "loaded" /\ value'[1] # value[1])
    => (pending = {} /\ lastCall'.inst = 1 /\ value'[1] = lastCall'.mode)

\* C9 as stated: whatever the key holds at the load, the mode is "light" or
\* "dark" and changes only by a setter call.
TwoStateMachine ==
  /\ [](phase = "loaded" => value[1] \in Modes)
  /\ [][ChangesOnlyBySetter]_vars

\* The key held, at the load, nothing readable or the text of a mode.
StoredModeOrNothing ==
  \/ getItemThrows
  \/ ~HasKey
  \/ ~JSONparse(storage[KEY]).ok
  \/ JSONparse(storage[KEY]).val \in Modes

\* C9 amended: the mode is "light" or "dark" when the key held nothing
\* readable or the text of a mode, and after any setter call; otherwise it
\* is the parsed stored value until the first setter call; it changes only
\* by a setter call.
TwoStateMachineAfterCall ==
  /\ [](phase = "loaded" =>
          IF lastCall # NoCall \/ StoredModeOrNothing
            THEN value[1] \in Modes
            ELSE value[1] = JSONparse(storage[KEY]).val)
  /\ [][ChangesOnlyBySetter]_vars

ForeignValueReplaced ==
  /\ Quiescent
  /\ ~getItemThrows
  /\ HasKey
  /\ storage[KEY] = Quoted(BLUE)
  /\ run = [inst |-> 1, seen |-> <<JsString(BLUE)>>]
  /\ value[1] = JsString(LIGHT)

\* C10: once both instances have called their setter and all effects have
\* run, the storage holds the JSON text of the mode passed by the last call,
\* and document.body has the class "dark" exactly when that mode is "dark".
LastWriteWins ==
  (Quiescent /\ \A i \in mounted : lastArg[i] # Undefined) =>
    /\ HasKey
    /\ storage[KEY] = Quoted(lastCall.mode.str)
    /\ (bodyDark <=> lastCall.mode = JsString(DARK))

====
